---- MODULE Spec2Model ----
(***************************************************************************)
(* State-machine model of Application (src/Application.cpp): the cube-map  *)
(* conversion demo.  One thread owns the window, the WebGPU device and the *)
(* GUI; every method of Application is a sequence of steps, one step per   *)
(* init/terminate helper or per GPU submission.                            *)
(*                                                                         *)
(* Floats are exact rationals: a slider value is an integer number of      *)
(* millionths (Unit = 1.0), a kernel of the uniforms is a numerator matrix *)
(* over a denominator.                                                     *)
(***************************************************************************)
EXTENDS Integers, Sequences, FiniteSets, TLC

VARIABLES
    pc,                         \* position of the single thread
    op,                         \* the Application method being run (or run last)
    gpu,                        \* handles (h), creation counts (gen), alive objects, what each was built from
    m_parameters,               \* Parameters: filterType, kernel, normalize
    m_uniforms,                 \* Uniforms: kernel, filterType
    m_settings,                 \* Settings: outputSizeLog
    m_shouldCompute,
    m_shouldReallocateTextures,
    uniformBufferData,          \* content of m_uniformBuffer on the queue
    lastDispatch,               \* the dispatchWorkgroups the current onCompute submitted
    calls,                      \* library calls issued by the current method, in order
    console,                    \* messages the application wrote to std::cerr
    entry,                      \* the two flags as they were when the current method was entered
    mip                         \* the call of getMaxMipLevelCount: its argument, m and w of bit_width, the result

vars == <<pc, op, gpu, m_parameters, m_uniforms, m_settings, m_shouldCompute,
          m_shouldReallocateTextures, uniformBufferData, lastDispatch, calls,
          console, entry, mip>>

appVars == <<m_parameters, m_uniforms, m_settings, m_shouldCompute,
             m_shouldReallocateTextures>>

\* ------------------------------------------------------------------ bounds

\* How many times the textures may be reallocated / the window resized in a run.
MaxRealloc == 1
MaxResize == 1
\* Size of the decoded input image (stbi_load's width and height).
ImageWidth == 8
ImageHeight == 4

\* ------------------------------------------------------------- GPU objects

Null == <<"null", 0>>

LayerFields == <<"m_outputTextureLayers[0]", "m_outputTextureLayers[1]",
                 "m_outputTextureLayers[2]", "m_outputTextureLayers[3]",
                 "m_outputTextureLayers[4]", "m_outputTextureLayers[5]">>

LayerFieldSet == {LayerFields[i] : i \in 1..6}

\* The handle fields of Application, and the two handles held in locals
\* (computeShaderModule in initComputePipeline, nextTexture in onFrame).
Fields ==
    {"m_window", "m_instance", "m_surface", "m_adapter", "m_device", "m_queue",
     "m_swapChain", "m_bindGroupLayout", "m_pipelineLayout", "m_pipeline",
     "m_uniformBuffer", "m_inputTexture", "m_outputTexture",
     "m_inputTextureView", "m_outputTextureView", "m_bindGroup",
     "computeShaderModule", "nextTexture"} \cup LayerFieldSet

NoDims == [width |-> 0, height |-> 0, layers |-> 0]

EmptyGpu ==
    [h       |-> [f \in Fields |-> Null],
     gen     |-> [f \in Fields |-> 0],
     alive   |-> {},
     created |-> <<>>,
     failed  |-> {},
     misuse  |-> {}]

\* The request for the object of `field` was made and gave no object: the
\* handle stays null.
NotObtained(G, field) == [G EXCEPT !.failed = @ \cup {field}]

\* How a call through a handle that refers to no alive object goes wrong.
Misuse(G, f, released) ==
    IF G.h[f] # Null THEN released
    ELSE IF f \in G.failed THEN "not obtained" ELSE "before creation"

\* What a call through the handles `fields` does to the heap: nothing when
\* each refers to an alive object; otherwise the call is on a handle that
\* was never created or was already released.
Use(G, fields) ==
    LET bad == {f \in fields : G.h[f] \notin G.alive}
    IN  [G EXCEPT !.misuse = @ \cup
            {<<Misuse(G, f, "after release"), f>> : f \in bad}]

\* createX(...): a new object, built from the objects the handles `fromFields`
\* refer to, stored in handle `field` (overwriting what the handle held).
Create(G, field, fromFields, dims) ==
    LET G1 == Use(G, fromFields)
        id == <<field, G.gen[field] + 1>>
    IN  IF G1.misuse # {} THEN G1
        ELSE [G1 EXCEPT !.h[field] = id,
                        !.gen[field] = @ + 1,
                        !.alive = @ \cup {id},
                        !.created = (id :> [from |-> {G.h[f] : f \in fromFields},
                                            dims |-> dims]) @@ @]

\* wgpuXRelease(handle): drops the application's only reference.  The handle
\* field keeps its (now dangling) value, as in the code.
Release(G, field) ==
    IF G.h[field] \in G.alive
    THEN [G EXCEPT !.alive = @ \ {G.h[field]}]
    ELSE [G EXCEPT !.misuse = @ \cup
            {<<Misuse(G, field, "released twice"), field>>}]

\* A local handle going out of scope: the object it refers to is untouched.
Forget(G, field) == [G EXCEPT !.h[field] = Null]

\* A step ends at `next`, unless it called through a missing or released
\* handle: both backends abort the process there.
EndStep(G, next) ==
    /\ gpu' = G
    /\ pc' = IF G.misuse = {} THEN next ELSE "aborted"

\* --------------------------------------------------------- application data

Unit == 1000000                 \* 1.0f in millionths
Epsilon == 1                    \* 1e-6 in millionths

FilterTypes == 0..2             \* "Sum\0Maximum\0Minimum\0"
MinOutputSizeLog == 2
MaxOutputSizeLog == 11

\* x as a uint32_t: x modulo 2^32, the 2^32 written in 16-bit halves.
U32(x) == x - ((x \div 65536) \div 65536) * 65536 * 65536

\* (uint32_t)std::pow(2, n)
RECURSIVE Pow2(_)
Pow2(n) == IF n <= 0 THEN 1 ELSE U32(2 * Pow2(n - 1))

Abs(x) == IF x < 0 THEN -x ELSE x

\* glm::mat3x4: three columns of four components, kernel[c][r].
Vec3(a, b, c) == <<a, b, c>>
Vec4(a, b, c, d) == <<a, b, c, d>>
\* mat3x4 * vec3 -> vec4
MatVec(m, v) == [r \in 1..4 |-> m[1][r] * v[1] + m[2][r] * v[2] + m[3][r] * v[3]]
\* dot(vec4, vec4)
Dot(a, b) == a[1] * b[1] + a[2] * b[2] + a[3] * b[3] + a[4] * b[4]
RECURSIVE Gcd(_, _)
Gcd(a, b) == IF b = 0 THEN a ELSE Gcd(b, a % b)

\* The matrix m / d in lowest terms: numerators over one positive denominator.
Quotient(m, d) ==
    LET col(c) == Gcd(Gcd(Abs(m[c][1]), Abs(m[c][2])), Gcd(Abs(m[c][3]), Abs(m[c][4])))
        g == Gcd(Gcd(col(1), col(2)), Gcd(col(3), Abs(d)))
        sg == IF d < 0 THEN -1 ELSE 1
    IN  [num |-> [c \in 1..3 |-> [r \in 1..4 |-> (sg * m[c][r]) \div g]],
         den |-> (sg * d) \div g]
\* mat3x4 / float, and a mat3x4 as it is (millionths over a million).
MatDiv(m, s) == Quotient(m, s)
MatAsIs(m) == Quotient(m, Unit)

\* Defaults of Application.h's Parameters, Uniforms, Settings and flags.
DefaultParameters ==
    [filterType |-> 0,
     kernel     |-> <<Vec4(Unit, 0, 0, 0), Vec4(0, Unit, 0, 0), Vec4(0, 0, Unit, 0)>>,
     normalize  |-> TRUE]
DefaultUniforms ==
    [kernel     |-> MatAsIs(<<Vec4(0, 0, 0, 0), Vec4(0, 0, 0, 0), Vec4(0, 0, 0, 0)>>),
     filterType |-> 0]
DefaultSettings == [outputSizeLog |-> 9]
DefaultShouldCompute == TRUE
DefaultShouldReallocateTextures == FALSE

\* The uniform buffer before its first write.
UndefinedData == [defined |-> FALSE, data |-> DefaultUniforms]
NoDispatch == [x |-> 0, y |-> 0, z |-> 0, bindGroup |-> Null, pipeline |-> Null,
               submitted |-> FALSE]
Flags == [shouldCompute |-> m_shouldCompute,
          shouldReallocateTextures |-> m_shouldReallocateTextures]

\* --------------------------------------------------------------- utilities

\* A uint32_t as its two 16-bit halves.
Word(hi, lo) == [hi |-> hi, lo |-> lo]
Zero32 == Word(0, 0)
\* 2^k and 2^k - 1 as uint32_t, for k in 0..32 (2^32 wraps to 0).
Pow2Word(k) ==
    IF k < 16 THEN Word(0, Pow2(k))
    ELSE IF k < 32 THEN Word(Pow2(k - 16), 0)
    ELSE Zero32
Pow2Minus1Word(k) ==
    IF k <= 16 THEN Word(0, Pow2(k) - 1) ELSE Word(Pow2(k - 16) - 1, Pow2(16) - 1)
\* a < b on uint32_t.
Less32(a, b) == a.hi < b.hi \/ (a.hi = b.hi /\ a.lo < b.lo)
\* std::max(a, b): a unless a < b.
Max32(a, b) == IF Less32(a, b) THEN b ELSE a
\* m >> 1: the low bit of the upper half moves into bit 15 of the lower half.
ShiftRight1(m) == Word(m.hi \div 2, (m.lo \div 2) + (m.hi % 2) * Pow2(15))

\* The state of Application, which the utilities do not touch.
applicationVars ==
    <<pc, op, gpu, appVars, uniformBufferData, lastDispatch, calls, console, entry>>

\* No call of getMaxMipLevelCount in progress.
NotCalled ==
    [pc |-> "none", textureSize |-> [width |-> Zero32, height |-> Zero32],
     m |-> Zero32, w |-> 0, result |-> 0]

Init ==
    /\ pc = "start"
    /\ op = "none"
    /\ gpu = EmptyGpu
    /\ m_parameters = DefaultParameters
    /\ m_uniforms = DefaultUniforms
    /\ m_settings = DefaultSettings
    /\ m_shouldCompute = DefaultShouldCompute
    /\ m_shouldReallocateTextures = DefaultShouldReallocateTextures
    /\ uniformBufferData = UndefinedData
    /\ lastDispatch = NoDispatch
    /\ calls = <<>>
    /\ console = {}
    /\ entry = [shouldCompute |-> DefaultShouldCompute,
                shouldReallocateTextures |-> DefaultShouldReallocateTextures]
    /\ mip = NotCalled

\* ------------------------------------------------------------------ onInit

\* initWindow, as the first step of onInit.
InitWindow ==
    /\ pc = "start"
    /\ op' = "onInit"
    /\ entry' = Flags
    /\ \E glfwOk, windowOk \in BOOLEAN :
         IF ~glfwOk
         THEN /\ calls' = <<"glfwInit">>
              /\ console' = console \cup {"Could not initialize GLFW!"}
              /\ pc' = "init_failed"
              /\ UNCHANGED gpu
         ELSE IF ~windowOk
         THEN /\ calls' = <<"glfwInit", "glfwCreateWindow">>
              /\ console' = console \cup {"Could not open window!"}
              /\ gpu' = NotObtained(gpu, "m_window")
              /\ pc' = "init_failed"
         ELSE /\ calls' = <<"glfwInit", "glfwCreateWindow", "glfwSetWindowUserPointer",
                            "glfwSetFramebufferSizeCallback">>
              /\ EndStep(Create(gpu, "m_window", {}, NoDims), "onInit.initDevice")
              /\ UNCHANGED console
    /\ UNCHANGED <<appVars, uniformBufferData, lastDispatch>>
    /\ UNCHANGED mip

\* initDevice.  The adapter and the device are requested and used without a
\* test: a call through the null handle aborts the process.
InitDevice ==
    /\ pc = "onInit.initDevice"
    /\ \E instanceOk, adapterOk, deviceOk \in BOOLEAN :
         IF ~instanceOk
         THEN /\ calls' = calls \o <<"createInstance">>
              /\ console' = console \cup {"Could not initialize WebGPU!"}
              /\ gpu' = NotObtained(gpu, "m_instance")
              /\ pc' = "init_failed"
         ELSE
           LET G1 == Create(Create(gpu, "m_instance", {}, NoDims),
                            "m_surface", {"m_instance", "m_window"}, NoDims)
               G2 == IF adapterOk
                     THEN Create(G1, "m_adapter", {"m_instance", "m_surface"}, NoDims)
                     ELSE NotObtained(G1, "m_adapter")
               \* m_adapter.getLimits, m_adapter.requestDevice
               G3 == Use(G2, {"m_adapter"})
               G4 == IF deviceOk
                     THEN Create(G3, "m_device", {"m_adapter"}, NoDims)
                     ELSE NotObtained(G3, "m_device")
               \* m_device.setUncapturedErrorCallback, setDeviceLostCallback, getQueue
               G5 == Create(Use(G4, {"m_device"}), "m_queue", {"m_device"}, NoDims)
               upToAdapter == <<"createInstance", "glfwGetWGPUSurface", "requestAdapter",
                                "getLimits">>
               upToDevice == upToAdapter \o <<"requestDevice", "setUncapturedErrorCallback">>
           IN  /\ UNCHANGED console
               /\ IF G3.misuse # {}
                  THEN calls' = calls \o upToAdapter /\ EndStep(G3, "onInit.initSwapChain")
                  ELSE IF Use(G4, {"m_device"}).misuse # {}
                  THEN calls' = calls \o upToDevice /\ EndStep(Use(G4, {"m_device"}), "onInit.initSwapChain")
                  ELSE /\ calls' = calls \o upToDevice \o
                                     <<"setDeviceLostCallback", "getQueue", "queueSubmit">>
                       /\ EndStep(G5, "onInit.initSwapChain")
    /\ UNCHANGED <<op, entry, appVars, uniformBufferData, lastDispatch>>
    /\ UNCHANGED mip

\* The limits initDevice requires of the device (those the claims name).
requiredLimits ==
    [maxTextureDimension2D |-> 4096,
     maxTextureArrayLayers |-> 1,
     maxComputeWorkgroupSizeX |-> 8,
     maxComputeWorkgroupSizeY |-> 8,
     maxComputeWorkgroupsPerDimension |-> 2]

\* --------------------------------------------- init and terminate helpers
\* Each helper is a function of the heap; the calls it issues are listed beside it.

initSwapChain(G) ==
    Create(Use(G, {"m_adapter", "m_window"}), "m_swapChain", {"m_device", "m_surface"}, NoDims)
initSwapChainCalls == <<"getPreferredFormat", "glfwGetFramebufferSize", "createSwapChain">>

terminateSwapChain(G) == Release(G, "m_swapChain")
terminateSwapChainCalls == <<"wgpuSwapChainRelease">>

initGui(G) == Use(G, {"m_window", "m_device"})
initGuiCalls == <<"ImGui_ImplGlfw_InitForOther", "ImGui_ImplWGPU_Init">>

terminateGui(G) == G
terminateGuiCalls == <<"ImGui_ImplWGPU_Shutdown", "ImGui_ImplGlfw_Shutdown">>

initBuffers(G) == Create(G, "m_uniformBuffer", {"m_device"}, NoDims)
initBuffersCalls == <<"createBuffer">>

terminateBuffers(G) == Release(Use(G, {"m_uniformBuffer"}), "m_uniformBuffer")
terminateBuffersCalls == <<"bufferDestroy", "wgpuBufferRelease">>

\* initTextures once stbi_load has given the pixels: the input texture, the
\* output texture of side 2^outputSizeLog with six layers, the upload.
initTextures(G, outputSizeLog) ==
    LET size == Pow2(outputSizeLog)
        G1 == Create(G, "m_inputTexture", {"m_device"},
                     [width |-> U32(ImageWidth), height |-> U32(ImageHeight), layers |-> 1])
        G2 == Create(G1, "m_outputTexture", {"m_device"},
                     [width |-> size, height |-> size, layers |-> 6])
    IN  Use(G2, {"m_queue", "m_inputTexture"})
initTexturesCalls == <<"stbi_load", "createTexture", "createTexture", "writeTexture",
                       "stbi_image_free">>
\* initTextures when stbi_load returns nullptr: std::runtime_error is thrown.
initTexturesThrowCalls == <<"stbi_load", "throw std::runtime_error">>

\* Mutant: the output texture is not released.
terminateTexturesInputOnly(G) == Release(Use(G, {"m_inputTexture"}), "m_inputTexture")
terminateTextures(G) ==
    Release(Use(Release(Use(G, {"m_inputTexture"}), "m_inputTexture"),
                {"m_outputTexture"}), "m_outputTexture")
terminateTexturesCalls == <<"textureDestroy", "wgpuTextureRelease", "textureDestroy",
                            "wgpuTextureRelease">>

RECURSIVE CreateLayerViews(_, _)
CreateLayerViews(G, i) ==
    IF i > 6 THEN G
    ELSE CreateLayerViews(
            Create(G, LayerFields[i], {"m_outputTexture"},
                   [width |-> i - 1, height |-> 0, layers |-> 1]), i + 1)

\* A view's record holds its baseArrayLayer (as width) and arrayLayerCount (as layers).
initTextureViews(G) ==
    LET G1 == Create(G, "m_inputTextureView", {"m_inputTexture"},
                     [width |-> 0, height |-> 0, layers |-> 1])
        G2 == CreateLayerViews(G1, 1)
    IN  Create(G2, "m_outputTextureView", {"m_outputTexture"},
               [width |-> 0, height |-> 0, layers |-> 6])
initTextureViewsCalls == <<"createView", "createView", "createView", "createView",
                           "createView", "createView", "createView", "createView">>

RECURSIVE ReleaseLayerViews(_, _)
ReleaseLayerViews(G, i) ==
    IF i > 6 THEN G ELSE ReleaseLayerViews(Release(G, LayerFields[i]), i + 1)

terminateTextureViews(G) ==
    ReleaseLayerViews(Release(Release(G, "m_inputTextureView"), "m_outputTextureView"), 1)
terminateTextureViewsCalls ==
    <<"wgpuTextureViewRelease", "wgpuTextureViewRelease", "wgpuTextureViewRelease",
      "wgpuTextureViewRelease", "wgpuTextureViewRelease", "wgpuTextureViewRelease",
      "wgpuTextureViewRelease", "wgpuTextureViewRelease">>

initBindGroup(G) ==
    Create(G, "m_bindGroup",
           {"m_device", "m_bindGroupLayout", "m_inputTextureView", "m_outputTextureView",
            "m_uniformBuffer"}, NoDims)
initBindGroupCalls == <<"createBindGroup">>

\* Mutant: the bind group is kept when its views and textures go.
terminateBindGroupKept(G) == G
terminateBindGroup(G) == Release(G, "m_bindGroup")
terminateBindGroupCalls == <<"wgpuBindGroupRelease">>

initBindGroupLayout(G) == Create(G, "m_bindGroupLayout", {"m_device"}, NoDims)
initBindGroupLayoutCalls == <<"createBindGroupLayout">>

terminateBindGroupLayout(G) == Release(G, "m_bindGroupLayout")
terminateBindGroupLayoutCalls == <<"wgpuBindGroupLayoutRelease">>

\* The shader module is held in a local and released nowhere.
initComputePipeline(G) ==
    LET G1 == Create(G, "computeShaderModule", {"m_device"}, NoDims)
        G2 == Create(G1, "m_pipelineLayout", {"m_device", "m_bindGroupLayout"}, NoDims)
        G3 == Create(G2, "m_pipeline",
                     {"m_device", "m_pipelineLayout", "computeShaderModule"}, NoDims)
    IN  Forget(G3, "computeShaderModule")
initComputePipelineCalls == <<"loadShaderModule", "createPipelineLayout",
                              "createComputePipeline">>

terminateComputePipeline(G) == Release(Release(G, "m_pipeline"), "m_pipelineLayout")
terminateComputePipelineCalls == <<"wgpuComputePipelineRelease", "wgpuPipelineLayoutRelease">>

\* WEBGPU_BACKEND_WGPU build: the queue is not released.
terminateDevice(G) == Release(Release(G, "m_device"), "m_instance")
terminateDeviceCalls == <<"wgpuDeviceRelease", "wgpuInstanceRelease">>

terminateWindow(G) == Release(G, "m_window")
terminateWindowCalls == <<"glfwDestroyWindow", "glfwTerminate">>

\* One helper call of a method: from `at`, the heap becomes G and the calls cs are issued.
Helper(at, next, G, cs) ==
    /\ pc = at
    /\ EndStep(G, next)
    /\ calls' = calls \o cs

\* The steps of onInit after initDevice, in the order of lines 89-97.
InitSwapChain ==
    /\ Helper("onInit.initSwapChain", "onInit.initGui", initSwapChain(gpu), initSwapChainCalls)
    /\ UNCHANGED <<op, entry, appVars, uniformBufferData, lastDispatch, console>>
    /\ UNCHANGED mip
InitGui ==
    /\ Helper("onInit.initGui", "onInit.initBindGroupLayout", initGui(gpu), initGuiCalls)
    /\ UNCHANGED <<op, entry, appVars, uniformBufferData, lastDispatch, console>>
    /\ UNCHANGED mip
InitBindGroupLayout ==
    /\ Helper("onInit.initBindGroupLayout", "onInit.initComputePipeline",
              initBindGroupLayout(gpu), initBindGroupLayoutCalls)
    /\ UNCHANGED <<op, entry, appVars, uniformBufferData, lastDispatch, console>>
    /\ UNCHANGED mip
InitComputePipeline ==
    /\ Helper("onInit.initComputePipeline", "onInit.initBuffers",
              initComputePipeline(gpu), initComputePipelineCalls)
    /\ UNCHANGED <<op, entry, appVars, uniformBufferData, lastDispatch, console>>
    /\ UNCHANGED mip
InitBuffers ==
    /\ Helper("onInit.initBuffers", "onInit.initTextures", initBuffers(gpu), initBuffersCalls)
    /\ UNCHANGED <<op, entry, appVars, uniformBufferData, lastDispatch, console>>
    /\ UNCHANGED mip
\* initTextures, at `at`: the image file is read or the runtime error leaves the method.
InitTexturesAt(at, next) ==
    \E readable \in BOOLEAN :
        IF readable
        THEN Helper(at, next, initTextures(gpu, m_settings.outputSizeLog), initTexturesCalls)
        ELSE /\ pc = at
             /\ pc' = "faulted"
             /\ calls' = calls \o initTexturesThrowCalls
             /\ UNCHANGED gpu
InitTextures ==
    /\ InitTexturesAt("onInit.initTextures", "onInit.initTextureViews")
    /\ UNCHANGED <<op, entry, appVars, uniformBufferData, lastDispatch, console>>
    /\ UNCHANGED mip
InitTextureViews ==
    /\ Helper("onInit.initTextureViews", "onInit.initBindGroup",
              initTextureViews(gpu), initTextureViewsCalls)
    /\ UNCHANGED <<op, entry, appVars, uniformBufferData, lastDispatch, console>>
    /\ UNCHANGED mip
\* onInit returns true: the driver's loop may call onFrame, onCompute, onFinish.
InitBindGroup ==
    /\ Helper("onInit.initBindGroup", "idle", initBindGroup(gpu), initBindGroupCalls)
    /\ UNCHANGED <<op, entry, appVars, uniformBufferData, lastDispatch, console>>
    /\ UNCHANGED mip

OnInit ==
    \/ InitWindow \/ InitDevice \/ InitSwapChain \/ InitGui \/ InitBindGroupLayout
    \/ InitComputePipeline \/ InitBuffers \/ InitTextures \/ InitTextureViews
    \/ InitBindGroup

\* ------------------------------------------------------------------- onGui

Ones3 == Vec3(1, 1, 1)          \* vec3(1.0)
RowMask == Vec4(1, 1, 1, 0)     \* vec4(1.0, 1.0, 1.0, 0.0)

\* float sum = dot(vec4(1.0, 1.0, 1.0, 0.0), m_parameters.kernel * vec3(1.0))
KernelSum(kernel) == Dot(RowMask, MatVec(kernel, Ones3))

\* Mutant: the sum is compared without std::abs.
UniformsKernelNoAbs(p) ==
    LET sum == KernelSum(p.kernel)
    IN  IF p.normalize /\ sum > Epsilon THEN MatDiv(p.kernel, sum) ELSE MatAsIs(p.kernel)
\* m_parameters.normalize && std::abs(sum) > 1e-6 ? kernel / sum : kernel
UniformsKernel(p) ==
    LET sum == KernelSum(p.kernel)
    IN  IF p.normalize /\ Abs(sum) > Epsilon THEN MatDiv(p.kernel, sum) ELSE MatAsIs(p.kernel)

\* The range of the three kernel sliders, taken before the widgets run.
SliderMinimum(p) == IF p.normalize THEN 0 ELSE -2 * Unit
SliderMaximum(p) == IF p.normalize THEN 4 * Unit ELSE 2 * Unit

\* Mutant: a change of the parameters does not raise the flag.
ShouldComputeAfterGuiDroppingChange(shouldCompute, changed, sizeChanged) ==
    IF sizeChanged THEN TRUE ELSE shouldCompute
\* m_shouldCompute after lines 575-582.
ShouldComputeAfterGui(shouldCompute, changed, sizeChanged) ==
    IF sizeChanged THEN TRUE ELSE (shouldCompute \/ changed)

\* Mutant: moving the size slider does not ask for a reallocation.
ShouldReallocateAfterGuiNever(shouldReallocate, sizeChanged) == shouldReallocate
\* m_shouldReallocateTextures after lines 579-582.
ShouldReallocateAfterGui(shouldReallocate, sizeChanged) ==
    IF sizeChanged THEN TRUE ELSE shouldReallocate

\* Lines 568-582 once the widgets have run: p is m_parameters as the widgets
\* left it, changed whether a Parameters widget reported a change, size the
\* output size slider's value and sizeChanged whether it reported a change.
onGuiUpdate(p, changed, size, sizeChanged) ==
    /\ m_parameters' = p
    /\ m_uniforms' = IF changed
                     THEN [kernel |-> UniformsKernel(p), filterType |-> p.filterType]
                     ELSE m_uniforms
    /\ m_shouldCompute' = ShouldComputeAfterGui(m_shouldCompute, changed, sizeChanged)
    /\ m_shouldReallocateTextures' =
            ShouldReallocateAfterGui(m_shouldReallocateTextures, sizeChanged)
    /\ m_settings' = [m_settings EXCEPT !.outputSizeLog = size]

\* The output size slider may move while fewer than MaxRealloc reallocations
\* were made or one is already pending.
MaySlideSize ==
    m_shouldReallocateTextures \/ gpu.gen["m_outputTexture"] <= MaxRealloc

\* One frame of the GUI: at most one widget is active in a frame.  `user`
\* says what the user may do: the filter types the combo is set to, the
\* kernel sliders (columns) moved and the positions they are moved to
\* (clamped to the slider range), whether the checkbox is clicked, the
\* positions the size slider is moved to.
onGuiWidgets(user) ==
    \/ onGuiUpdate(m_parameters, FALSE, m_settings.outputSizeLog, FALSE)
    \/ \E v \in (user.filterTypes \cap FilterTypes) \ {m_parameters.filterType} :
          onGuiUpdate([m_parameters EXCEPT !.filterType = v], TRUE,
                      m_settings.outputSizeLog, FALSE)
    \/ \E c \in user.columns, v \in user.columnStops :
          /\ \A i \in 1..3 : SliderMinimum(m_parameters) <= v[i]
                              /\ v[i] <= SliderMaximum(m_parameters)
          /\ v # SubSeq(m_parameters.kernel[c], 1, 3)
          /\ onGuiUpdate([m_parameters EXCEPT !.kernel[c] = Vec4(v[1], v[2], v[3], @[4])],
                         TRUE, m_settings.outputSizeLog, FALSE)
    \/ /\ user.checkbox
       /\ onGuiUpdate([m_parameters EXCEPT !.normalize = ~@], TRUE,
                      m_settings.outputSizeLog, FALSE)
    \/ \E v \in (user.sizeStops \cap (MinOutputSizeLog..MaxOutputSizeLog))
                    \ {m_settings.outputSizeLog} :
          /\ MaySlideSize
          /\ onGuiUpdate(m_parameters, FALSE, v, TRUE)

onGuiCalls == <<"createCommandEncoder", "beginRenderPass", "ImGui::NewFrame", "AddImage",
                "ImGui::Render", "ImGui_ImplWGPU_RenderDrawData">>

\* ----------------------------------------------------------------- onFrame

\* onFrame starts: glfwPollEvents runs the pending window callbacks.
FramePoll ==
    /\ pc = "idle"
    /\ pc' = "onFrame.glfwPollEvents"
    /\ op' = "onFrame"
    /\ entry' = Flags
    /\ calls' = <<"glfwPollEvents">>
    /\ UNCHANGED <<gpu, appVars, uniformBufferData, lastDispatch, console>>
    /\ UNCHANGED mip

\* Mutant: the callback also runs while the frame is being recorded.
ResizeAllowedWhileRecording == pc \in {"onFrame.glfwPollEvents", "onFrame.submit"}
\* Where the framebuffer-size callback (onWindowResize -> onResize) can run.
ResizeAllowed == pc = "onFrame.glfwPollEvents"

\* onResize, first half: terminateSwapChain.
ResizeTerminateSwapChain ==
    /\ ResizeAllowed
    /\ gpu.gen["m_swapChain"] <= MaxResize
    /\ EndStep(terminateSwapChain(gpu), "onResize.initSwapChain")
    /\ calls' = calls \o <<"onResize">> \o terminateSwapChainCalls
    /\ UNCHANGED <<op, entry, appVars, uniformBufferData, lastDispatch, console>>
    /\ UNCHANGED mip

\* onResize, second half: initSwapChain; the callback returns into glfwPollEvents.
ResizeInitSwapChain ==
    /\ Helper("onResize.initSwapChain", "onFrame.glfwPollEvents",
              initSwapChain(gpu), initSwapChainCalls)
    /\ UNCHANGED <<op, entry, appVars, uniformBufferData, lastDispatch, console>>
    /\ UNCHANGED mip

\* m_swapChain.getCurrentTextureView(): a view of the current swap chain, or null.
AcquireView(G) ==
    LET G1 == Use(G, {"m_swapChain"})
        id == <<"nextTexture", G.gen["m_swapChain"]>>
    IN  IF G1.misuse # {} THEN G1
        ELSE [G1 EXCEPT !.h["nextTexture"] = id,
                        !.alive = @ \cup {id},
                        !.created = (id :> [from |-> {G.h["m_swapChain"]},
                                            dims |-> NoDims]) @@ @]

\* Mutant: a failed acquisition goes on to record the frame.
FrameAcquireFailedRecording ==
    /\ EndStep(Use(gpu, {"m_swapChain"}), "onFrame.onGui")
    /\ calls' = calls \o <<"getCurrentTextureView">>
    /\ UNCHANGED console
\* if (!nextTexture): the message on std::cerr, and onFrame returns.
FrameAcquireFailed ==
    /\ EndStep(Use(gpu, {"m_swapChain"}), "idle")
    /\ calls' = calls \o <<"getCurrentTextureView">>
    /\ console' = console \cup {"Cannot acquire next swap chain texture"}

FrameAcquire ==
    /\ pc = "onFrame.glfwPollEvents"
    /\ \E acquired \in BOOLEAN :
         IF acquired
         THEN /\ EndStep(AcquireView(gpu), "onFrame.onGui")
              /\ calls' = calls \o <<"getCurrentTextureView">>
              /\ UNCHANGED console
         ELSE FrameAcquireFailed
    /\ UNCHANGED <<op, entry, appVars, uniformBufferData, lastDispatch>>
    /\ UNCHANGED mip

\* The render pass is begun on nextTexture and onGui records into it.
FrameGui(user) ==
    /\ pc = "onFrame.onGui"
    /\ EndStep(Use(gpu, {"m_device", "nextTexture", "m_inputTextureView", "m_inputTexture",
                         "m_outputTexture"} \cup LayerFieldSet), "onFrame.submit")
    /\ calls' = calls \o onGuiCalls
    /\ onGuiWidgets(user)
    /\ UNCHANGED <<op, entry, uniformBufferData, lastDispatch, console>>
    /\ UNCHANGED mip

\* The "Save Output" button: saveTexture reads the six layers of m_outputTexture.
FrameGuiSave ==
    /\ pc = "onFrame.onGui"
    /\ EndStep(Use(gpu, {"m_device", "nextTexture", "m_inputTextureView", "m_inputTexture",
                         "m_outputTexture"} \cup LayerFieldSet), "onFrame.submit")
    /\ calls' = calls \o onGuiCalls \o <<"saveTexture">>
    /\ onGuiUpdate(m_parameters, FALSE, m_settings.outputSizeLog, FALSE)
    /\ UNCHANGED <<op, entry, uniformBufferData, lastDispatch, console>>
    /\ UNCHANGED mip

FrameSubmit ==
    /\ Helper("onFrame.submit", "onFrame.present", Use(gpu, {"m_queue", "nextTexture"}),
              <<"renderPassEnd", "encoderFinish", "queueSubmit">>)
    /\ UNCHANGED <<op, entry, appVars, uniformBufferData, lastDispatch, console>>
    /\ UNCHANGED mip

FramePresent ==
    /\ Helper("onFrame.present", "onFrame.release", Use(gpu, {"m_swapChain"}),
              <<"swapChainPresent">>)
    /\ UNCHANGED <<op, entry, appVars, uniformBufferData, lastDispatch, console>>
    /\ UNCHANGED mip

\* wgpuTextureViewRelease(nextTexture); onFrame returns.
FrameRelease ==
    /\ Helper("onFrame.release", "idle", Forget(Release(gpu, "nextTexture"), "nextTexture"),
              <<"wgpuTextureViewRelease", "wgpuQueueSubmit">>)
    /\ UNCHANGED <<op, entry, appVars, uniformBufferData, lastDispatch, console>>
    /\ UNCHANGED mip

\* --------------------------------------------------------------- onCompute

workgroupSizePerDim == 4

\* Mutant: the "- 1" of the ceiling division is left out.
WorkgroupCountOffByOne(invocationCount) ==
    U32(invocationCount + workgroupSizePerDim) \div workgroupSizePerDim
\* (invocationCount + workgroupSizePerDim - 1) / workgroupSizePerDim, in uint32_t
WorkgroupCount(invocationCount) ==
    U32(U32(invocationCount + workgroupSizePerDim) - 1) \div workgroupSizePerDim

\* onCompute is entered; line 606 takes the reallocation path or skips it.
ComputeBegin ==
    /\ pc = "idle"
    /\ pc' = IF m_shouldReallocateTextures
             THEN "onCompute.terminateBindGroup" ELSE "onCompute.writeBuffer"
    /\ op' = "onCompute"
    /\ entry' = Flags
    /\ calls' = <<>>
    /\ lastDispatch' = NoDispatch
    /\ UNCHANGED <<gpu, appVars, uniformBufferData, console>>
    /\ UNCHANGED mip

ComputeTerminateBindGroup ==
    /\ Helper("onCompute.terminateBindGroup", "onCompute.terminateTextureViews",
              terminateBindGroup(gpu), terminateBindGroupCalls)
    /\ UNCHANGED <<op, entry, appVars, uniformBufferData, lastDispatch, console>>
    /\ UNCHANGED mip
ComputeTerminateTextureViews ==
    /\ Helper("onCompute.terminateTextureViews", "onCompute.terminateTextures",
              terminateTextureViews(gpu), terminateTextureViewsCalls)
    /\ UNCHANGED <<op, entry, appVars, uniformBufferData, lastDispatch, console>>
    /\ UNCHANGED mip
\* Mutant: the reallocation flag is cleared as soon as the old textures are gone.
ComputeTerminateTexturesClearingFlag ==
    /\ Helper("onCompute.terminateTextures", "onCompute.initTextures",
              terminateTextures(gpu), terminateTexturesCalls)
    /\ m_shouldReallocateTextures' = FALSE
    /\ UNCHANGED <<op, entry, m_parameters, m_uniforms, m_settings, m_shouldCompute,
                   uniformBufferData, lastDispatch, console>>
    /\ UNCHANGED mip
ComputeTerminateTextures ==
    /\ Helper("onCompute.terminateTextures", "onCompute.initTextures",
              terminateTextures(gpu), terminateTexturesCalls)
    /\ UNCHANGED <<op, entry, appVars, uniformBufferData, lastDispatch, console>>
    /\ UNCHANGED mip
ComputeInitTextures ==
    /\ InitTexturesAt("onCompute.initTextures", "onCompute.initTextureViews")
    /\ UNCHANGED <<op, entry, appVars, uniformBufferData, lastDispatch, console>>
    /\ UNCHANGED mip
ComputeInitTextureViews ==
    /\ Helper("onCompute.initTextureViews", "onCompute.initBindGroup",
              initTextureViews(gpu), initTextureViewsCalls)
    /\ UNCHANGED <<op, entry, appVars, uniformBufferData, lastDispatch, console>>
    /\ UNCHANGED mip
\* initBindGroup(); m_shouldReallocateTextures = false;
ComputeInitBindGroup ==
    /\ Helper("onCompute.initBindGroup", "onCompute.writeBuffer",
              initBindGroup(gpu), initBindGroupCalls)
    /\ m_shouldReallocateTextures' = (gpu'.misuse # {} /\ m_shouldReallocateTextures)
    /\ UNCHANGED <<op, entry, m_parameters, m_uniforms, m_settings, m_shouldCompute,
                   uniformBufferData, lastDispatch, console>>
    /\ UNCHANGED mip

\* m_queue.writeBuffer(m_uniformBuffer, 0, &m_uniforms, sizeof(Uniforms))
ComputeWriteBuffer ==
    /\ Helper("onCompute.writeBuffer", "onCompute.dispatch",
              Use(gpu, {"m_queue", "m_uniformBuffer"}), <<"writeBuffer">>)
    /\ uniformBufferData' = IF gpu'.misuse = {}
                            THEN [defined |-> TRUE, data |-> m_uniforms]
                            ELSE uniformBufferData
    /\ UNCHANGED <<op, entry, appVars, lastDispatch, console>>
    /\ UNCHANGED mip

\* The dispatch lines 634-640 record for the output texture's width and height.
DispatchFor(G) ==
    LET size == G.created[G.h["m_outputTexture"]].dims
    IN  [x |-> WorkgroupCount(size.width),
         y |-> WorkgroupCount(size.height),
         z |-> 1,
         bindGroup |-> G.h["m_bindGroup"],
         pipeline |-> G.h["m_pipeline"],
         submitted |-> TRUE]

\* The compute pass is recorded and submitted (lines 620-648).
ComputeDispatch ==
    /\ Helper("onCompute.dispatch", "onCompute.done",
              Use(gpu, {"m_device", "m_pipeline", "m_bindGroup", "m_outputTexture", "m_queue"}),
              <<"createCommandEncoder", "beginComputePass", "setPipeline", "setBindGroup",
                "dispatchWorkgroups", "computePassEnd", "encoderFinish", "queueSubmit">>)
    /\ lastDispatch' = IF gpu'.misuse = {} THEN DispatchFor(gpu) ELSE lastDispatch
    /\ UNCHANGED <<op, entry, appVars, uniformBufferData, console>>
    /\ UNCHANGED mip

\* m_shouldCompute = false; onCompute returns.
ComputeDone ==
    /\ pc = "onCompute.done"
    /\ pc' = "idle"
    /\ m_shouldCompute' = FALSE
    /\ lastDispatch' = NoDispatch
    /\ UNCHANGED <<op, entry, gpu, m_parameters, m_uniforms, m_settings,
                   m_shouldReallocateTextures, uniformBufferData, calls, console>>
    /\ UNCHANGED mip

OnCompute ==
    \/ ComputeBegin \/ ComputeTerminateBindGroup \/ ComputeTerminateTextureViews
    \/ ComputeTerminateTextures \/ ComputeInitTextures \/ ComputeInitTextureViews
    \/ ComputeInitBindGroup \/ ComputeWriteBuffer \/ ComputeDispatch \/ ComputeDone

\* ---------------------------------------------------------------- onFinish

\* onFinish is entered from the driver's loop and starts with terminateBindGroup.
FinishBindGroup ==
    /\ pc = "idle"
    /\ EndStep(terminateBindGroup(gpu), "onFinish.terminateTextureViews")
    /\ op' = "onFinish"
    /\ entry' = Flags
    /\ calls' = terminateBindGroupCalls
    /\ UNCHANGED <<appVars, uniformBufferData, lastDispatch, console>>
    /\ UNCHANGED mip
FinishTextureViews ==
    /\ Helper("onFinish.terminateTextureViews", "onFinish.terminateTextures",
              terminateTextureViews(gpu), terminateTextureViewsCalls)
    /\ UNCHANGED <<op, entry, appVars, uniformBufferData, lastDispatch, console>>
    /\ UNCHANGED mip
FinishTextures ==
    /\ Helper("onFinish.terminateTextures", "onFinish.terminateBuffers",
              terminateTextures(gpu), terminateTexturesCalls)
    /\ UNCHANGED <<op, entry, appVars, uniformBufferData, lastDispatch, console>>
    /\ UNCHANGED mip
FinishBuffers ==
    /\ Helper("onFinish.terminateBuffers", "onFinish.terminateComputePipeline",
              terminateBuffers(gpu), terminateBuffersCalls)
    /\ UNCHANGED <<op, entry, appVars, uniformBufferData, lastDispatch, console>>
    /\ UNCHANGED mip
FinishComputePipeline ==
    /\ Helper("onFinish.terminateComputePipeline", "onFinish.terminateBindGroupLayout",
              terminateComputePipeline(gpu), terminateComputePipelineCalls)
    /\ UNCHANGED <<op, entry, appVars, uniformBufferData, lastDispatch, console>>
    /\ UNCHANGED mip
FinishBindGroupLayout ==
    /\ Helper("onFinish.terminateBindGroupLayout", "onFinish.terminateGui",
              terminateBindGroupLayout(gpu), terminateBindGroupLayoutCalls)
    /\ UNCHANGED <<op, entry, appVars, uniformBufferData, lastDispatch, console>>
    /\ UNCHANGED mip
FinishGui ==
    /\ Helper("onFinish.terminateGui", "onFinish.terminateSwapChain",
              terminateGui(gpu), terminateGuiCalls)
    /\ UNCHANGED <<op, entry, appVars, uniformBufferData, lastDispatch, console>>
    /\ UNCHANGED mip
FinishSwapChain ==
    /\ Helper("onFinish.terminateSwapChain", "onFinish.terminateDevice",
              terminateSwapChain(gpu), terminateSwapChainCalls)
    /\ UNCHANGED <<op, entry, appVars, uniformBufferData, lastDispatch, console>>
    /\ UNCHANGED mip
FinishDevice ==
    /\ Helper("onFinish.terminateDevice", "onFinish.terminateWindow",
              terminateDevice(gpu), terminateDeviceCalls)
    /\ UNCHANGED <<op, entry, appVars, uniformBufferData, lastDispatch, console>>
    /\ UNCHANGED mip
FinishWindow ==
    /\ Helper("onFinish.terminateWindow", "finished",
              terminateWindow(gpu), terminateWindowCalls)
    /\ UNCHANGED <<op, entry, appVars, uniformBufferData, lastDispatch, console>>
    /\ UNCHANGED mip

OnFinish ==
    \/ FinishBindGroup \/ FinishTextureViews \/ FinishTextures \/ FinishBuffers
    \/ FinishComputePipeline \/ FinishBindGroupLayout \/ FinishGui \/ FinishSwapChain
    \/ FinishDevice \/ FinishWindow

\* ---------------------------------------------------------- specifications

\* The user of the lifecycle specification: every filter type, the "Kernel X"
\* slider to one position, the checkbox, the size slider between the
\* smallest size and the default.
LifecycleUser ==
    [filterTypes |-> FilterTypes,
     columns     |-> {1},
     columnStops |-> {Vec3(0, 0, 0)},
     checkbox    |-> TRUE,
     sizeStops   |-> {MinOutputSizeLog, DefaultSettings.outputSizeLog}]

OnFrame(user) ==
    \/ FramePoll \/ ResizeTerminateSwapChain \/ ResizeInitSwapChain \/ FrameAcquire
    \/ FrameGui(user) \/ FrameGuiSave
    \/ FrameSubmit \/ FramePresent \/ FrameRelease

Next ==
    \/ OnInit
    \/ OnFrame(LifecycleUser)
    \/ OnCompute
    \/ OnFinish

Spec == Init /\ [][Next]_vars

\* The GUI specification: every kernel slider among positions that straddle
\* the epsilon and both slider ranges; no compute, no size change.
GuiColumnStops ==
    {Vec3(0, 0, 0), Vec3(1, 0, 0), Vec3(Unit, 0, 2 * Unit), Vec3(0, -Unit, 0),
     Vec3(-1, -1, 0)}

GuiUser ==
    [filterTypes |-> FilterTypes,
     columns     |-> 1..3,
     columnStops |-> GuiColumnStops,
     checkbox    |-> TRUE,
     sizeStops   |-> {}]

NextGui == OnInit \/ OnFrame(GuiUser)

GuiSpec == Init /\ [][NextGui]_vars

\* The sizes specification: the size slider over its whole range.
SizesUser ==
    [filterTypes |-> {},
     columns     |-> {},
     columnStops |-> {},
     checkbox    |-> FALSE,
     sizeStops   |-> MinOutputSizeLog..MaxOutputSizeLog]

NextSizes == OnInit \/ OnFrame(SizesUser) \/ OnCompute

SizesSpec == Init /\ [][NextSizes]_vars

\* The utilities specification: getMaxMipLevelCount called on texture sizes
\* whose sides are 0, every power of two and every power of two less one.
ExtentStops ==
    {Pow2Word(k) : k \in 0..32} \cup {Pow2Minus1Word(k) : k \in 1..32}

\* getMaxMipLevelCount(textureSize): the argument of bit_width is the larger side.
GetMaxMipLevelCount ==
    /\ mip.pc = "none"
    /\ \E width \in ExtentStops, height \in ExtentStops :
          mip' = [pc |-> "bit_width",
                  textureSize |-> [width |-> width, height |-> height],
                  m |-> Max32(width, height), w |-> 0, result |-> 0]
    /\ UNCHANGED applicationVars

\* bit_width: if (m == 0) return 0; else w = 0 and the loop is entered.
BitWidthEnter ==
    /\ mip.pc = "bit_width"
    /\ mip' = IF mip.m = Zero32
              THEN [mip EXCEPT !.pc = "returned", !.result = 0]
              ELSE [mip EXCEPT !.pc = "bit_width.while", !.w = 0]
    /\ UNCHANGED applicationVars

\* while (m >>= 1) ++w; return w;
BitWidthWhile ==
    /\ mip.pc = "bit_width.while"
    /\ LET shifted == ShiftRight1(mip.m)
       IN  mip' = IF shifted # Zero32
                  THEN [mip EXCEPT !.m = shifted, !.w = U32(mip.w + 1)]
                  ELSE [mip EXCEPT !.m = shifted, !.pc = "returned", !.result = mip.w]
    /\ UNCHANGED applicationVars

NextMip == GetMaxMipLevelCount \/ BitWidthEnter \/ BitWidthWhile

MipSpec == Init /\ [][NextMip]_vars

\* ------------------------------------------------------------------ claims

Alive(f) == gpu.h[f] \in gpu.alive
AliveOfKind(kind) == {id \in gpu.alive : id[1] = kind}
ViewKinds == {"m_inputTextureView", "m_outputTextureView"} \cup LayerFieldSet
TextureKinds == {"m_inputTexture", "m_outputTexture"}
OutputDims == gpu.created[gpu.h["m_outputTexture"]].dims
Position(seq, x) == CHOOSE i \in 1..Len(seq) : seq[i] = x
Occurs(seq, x) == \E i \in 1..Len(seq) : seq[i] = x

\* The resources C1 lists, and for each the resources C1 says it needs alive.
C1Kinds ==
    {"m_bindGroup", "m_bindGroupLayout", "m_pipeline", "m_pipelineLayout", "m_uniformBuffer"}
        \cup ViewKinds \cup TextureKinds
C1Needs(id) ==
    {d \in gpu.created[id].from :
        d[1] \in C1Kinds \cup {"m_device"}} \cup {<<"m_device", 1>>}

\* C1: in every state of every run, each alive bind group, texture view,
\* pipeline, pipeline layout, bind group layout, texture and uniform buffer
\* has every listed resource it was built from, and the device, still alive;
\* and no call was made through a handle before its object was created or
\* after it was released.
C1_ResourceOrder ==
    /\ \A id \in gpu.alive : id[1] \in C1Kinds => C1Needs(id) \subseteq gpu.alive
    /\ \A m \in gpu.misuse : m[1] \notin {"before creation", "after release", "released twice"}

\* A whole run: onInit, a reallocating onCompute, a resize, frames, onFinish.
C1_Witness ==
    /\ pc = "finished"
    /\ gpu.gen["m_outputTexture"] = 2
    /\ gpu.gen["m_swapChain"] = 2
    /\ gpu.misuse = {}

\* The least c with 4 * c >= n.
IsCeilQuarter(c, n) == c >= 0 /\ 4 * c >= n /\ (c = 0 \/ 4 * (c - 1) < n)

\* C2: every dispatch onCompute submits has ceil(W/4) x ceil(H/4) x 1
\* workgroups for the output texture's width W and height H, and W + 4 - 1
\* (H + 4 - 1) fits 32 bits unsigned.
C2_DispatchSize ==
    lastDispatch.submitted =>
        /\ IsCeilQuarter(lastDispatch.x, OutputDims.width)
        /\ IsCeilQuarter(lastDispatch.y, OutputDims.height)
        /\ lastDispatch.z = 1
        /\ (OutputDims.width + 4 - 1) \div 65536 < 65536
        /\ (OutputDims.height + 4 - 1) \div 65536 < 65536

\* A dispatch over the largest output texture the slider allows.
C2_Witness ==
    /\ lastDispatch.submitted
    /\ OutputDims.width = 2048
    /\ lastDispatch.x = 512

\* The sum of the 3x3 kernel's components in its first n rows.
RowsSum(kernel, n) ==
    LET row(r) == IF r <= n THEN kernel[1][r] + kernel[2][r] + kernel[3][r] ELSE 0
    IN  row(1) + row(2) + row(3) + row(4)

ParametersChange == pc = "onFrame.onGui" /\ m_parameters' # m_parameters

\* C3 as stated: on a parameter change, the uniforms kernel is the kernel
\* divided by the sum of its first two rows when normalize is set and that
\* sum exceeds 1e-6, and the kernel unchanged otherwise.
C3_AsClaimed ==
    [][ParametersChange =>
        m_uniforms'.kernel =
            IF m_parameters'.normalize /\ RowsSum(m_parameters'.kernel, 2) > Epsilon
            THEN MatDiv(m_parameters'.kernel, RowsSum(m_parameters'.kernel, 2))
            ELSE MatAsIs(m_parameters'.kernel)]_vars

\* C3 amended: on a parameter change, the uniforms kernel is the kernel
\* divided by the sum of all nine components of its 3x3 part (its first
\* three rows) when normalize is set and the absolute value of that sum
\* exceeds 1e-6, and the kernel unchanged otherwise.
C3_KernelNormalization ==
    [][ParametersChange =>
        m_uniforms'.kernel =
            IF m_parameters'.normalize /\ Abs(RowsSum(m_parameters'.kernel, 3)) > Epsilon
            THEN MatDiv(m_parameters'.kernel, RowsSum(m_parameters'.kernel, 3))
            ELSE MatAsIs(m_parameters'.kernel)]_vars

\* The GUI has just normalized a kernel whose sum is negative.
C3_Witness ==
    /\ pc = "onFrame.submit"
    /\ m_parameters.normalize
    /\ RowsSum(m_parameters.kernel, 3) < -Epsilon
    /\ m_uniforms.kernel = MatDiv(m_parameters.kernel, RowsSum(m_parameters.kernel, 3))
    /\ m_uniforms.kernel # MatAsIs(m_parameters.kernel)

Requests == [m_window |-> "glfwCreateWindow", m_instance |-> "createInstance",
             m_adapter |-> "requestAdapter", m_device |-> "requestDevice"]

\* C4 as stated: when the window, the instance, the adapter or the device is
\* not obtained, onInit has written to the console and returned false, and
\* the request that failed is the last call it made.
C4_AsClaimed ==
    \A f \in DOMAIN Requests :
        f \in gpu.failed =>
            /\ pc = "init_failed"
            /\ console # {}
            /\ calls # <<>> /\ calls[Len(calls)] = Requests[f]

Count(seq, x) == Cardinality({i \in 1..Len(seq) : seq[i] = x})

\* C5: when initTextures throws, stbi_load was called once and nothing
\* after it: no texture was created and nothing uploaded; thrown from
\* onCompute, the old textures are gone, no uniform write and no dispatch
\* was issued and both flags are as they were when onCompute was entered.
C5_UnreadableImage ==
    pc = "faulted" =>
        /\ Count(calls, "stbi_load") = 1
        /\ calls[Len(calls)] = "throw std::runtime_error"
        /\ calls[Len(calls) - 1] = "stbi_load"
        /\ ~Occurs(calls, "createTexture")
        /\ ~Occurs(calls, "writeTexture")
        /\ AliveOfKind("m_inputTexture") = {} /\ AliveOfKind("m_outputTexture") = {}
        /\ op = "onCompute" =>
              /\ ~Occurs(calls, "writeBuffer")
              /\ ~Occurs(calls, "dispatchWorkgroups")
              /\ ~Occurs(calls, "queueSubmit")
              /\ ~lastDispatch.submitted
              /\ Flags = entry
              /\ entry.shouldReallocateTextures

\* The image became unreadable before a reallocation.
C5_Witness ==
    /\ pc = "faulted"
    /\ op = "onCompute"
    /\ Occurs(calls, "wgpuTextureRelease")

FrameCallsAfterAcquire ==
    <<"getCurrentTextureView", "createCommandEncoder", "beginRenderPass", "ImGui::NewFrame",
      "AddImage", "ImGui::Render", "ImGui_ImplWGPU_RenderDrawData", "renderPassEnd",
      "encoderFinish", "queueSubmit", "swapChainPresent", "wgpuTextureViewRelease",
      "wgpuQueueSubmit">>

\* The calls of a frame from the acquisition on, "saveTexture" left out.
RECURSIVE WithoutSave(_)
WithoutSave(seq) ==
    IF seq = <<>> THEN <<>>
    ELSE IF Head(seq) = "saveTexture" THEN WithoutSave(Tail(seq))
    ELSE <<Head(seq)>> \o WithoutSave(Tail(seq))

\* C6: onResize runs only inside glfwPollEvents, before the frame's view is
\* acquired; from the acquisition to the release of the view the swap chain
\* the view came from is the alive m_swapChain and no dispatch is issued;
\* a frame that ends issued its calls in the order poll (with the resizes),
\* acquire, render pass, end, submit, present, release.
C6_FrameOrder ==
    /\ pc = "onResize.initSwapChain" =>
          /\ gpu.h["nextTexture"] = Null
          /\ \A i \in 1..Len(calls) :
                calls[i] \in {"glfwPollEvents", "onResize", "wgpuSwapChainRelease",
                              "getPreferredFormat", "glfwGetFramebufferSize",
                              "createSwapChain"}
    /\ pc \in {"onFrame.onGui", "onFrame.submit", "onFrame.present", "onFrame.release"} =>
          /\ Alive("nextTexture")
          /\ Alive("m_swapChain")
          /\ gpu.created[gpu.h["nextTexture"]].from = {gpu.h["m_swapChain"]}
          /\ ~Occurs(calls, "dispatchWorkgroups")
          /\ ~lastDispatch.submitted
          /\ Count(calls, "getCurrentTextureView") = 1
          /\ \A i \in 1..Len(calls) :
                calls[i] \in {"onResize", "wgpuSwapChainRelease", "createSwapChain"}
                    => i < Position(calls, "getCurrentTextureView")
    /\ (pc = "idle" /\ op = "onFrame" /\ Occurs(calls, "swapChainPresent")) =>
          /\ calls[1] = "glfwPollEvents"
          /\ WithoutSave(SubSeq(calls, Position(calls, "getCurrentTextureView"), Len(calls)))
                = FrameCallsAfterAcquire

\* A frame was presented after a resize ran inside its glfwPollEvents.
C6_Witness ==
    /\ pc = "onFrame.release"
    /\ Occurs(calls, "onResize")
    /\ Occurs(calls, "swapChainPresent")

C7Kinds == {"m_inputTexture", "m_outputTexture", "m_bindGroup", "m_swapChain", "nextTexture"}
               \cup ViewKinds

DerivedUniforms(p) == [kernel |-> UniformsKernel(p), filterType |-> p.filterType]

\* C8: every step that changes the parameters or the output size leaves
\* m_shouldCompute true and, for the parameters, m_uniforms derived from the
\* new parameters; m_uniforms changes in no other step; m_shouldCompute goes
\* from true to false only in the last step of onCompute, after the
\* dispatch was submitted with the uniform buffer holding m_uniforms, the
\* write preceding the submission; the flag is untouched by the steps of
\* onCompute before that.
C8_NoChangeLost ==
    [][/\ (m_parameters' # m_parameters \/ m_settings' # m_settings) =>
              (pc = "onFrame.onGui" /\ m_shouldCompute')
       /\ m_parameters' # m_parameters => m_uniforms' = DerivedUniforms(m_parameters')
       /\ m_parameters' = m_parameters => m_uniforms' = m_uniforms
       /\ (m_shouldCompute /\ ~m_shouldCompute') =>
              /\ pc = "onCompute.done"
              /\ lastDispatch.submitted
              /\ uniformBufferData = [defined |-> TRUE, data |-> m_uniforms]
              /\ Position(calls, "writeBuffer") < Position(calls, "queueSubmit")
              /\ Position(calls, "writeBuffer") < Position(calls, "dispatchWorkgroups")
       /\ (lastDispatch'.submitted /\ ~lastDispatch.submitted) =>
              /\ uniformBufferData' = [defined |-> TRUE, data |-> m_uniforms']
              /\ m_shouldCompute' = entry.shouldCompute
      ]_vars

\* A dispatch was submitted with the uniforms of changed parameters, the
\* flag still raised.
C8_Witness ==
    /\ pc = "onCompute.done"
    /\ m_shouldCompute
    /\ m_parameters # DefaultParameters
    /\ uniformBufferData = [defined |-> TRUE, data |-> DerivedUniforms(m_parameters)]
    /\ uniformBufferData.data # DefaultUniforms

C10_AsClaimed ==
    /\ lastDispatch.submitted =>
          /\ lastDispatch.x <= requiredLimits.maxComputeWorkgroupsPerDimension
          /\ lastDispatch.y <= requiredLimits.maxComputeWorkgroupsPerDimension
    /\ \A id \in AliveOfKind("m_outputTexture") :
          /\ gpu.created[id].dims.layers <= requiredLimits.maxTextureArrayLayers
          /\ gpu.created[id].dims.width <= requiredLimits.maxTextureDimension2D
          /\ gpu.created[id].dims.height <= requiredLimits.maxTextureDimension2D
    /\ workgroupSizePerDim <= requiredLimits.maxComputeWorkgroupSizeX
    /\ workgroupSizePerDim <= requiredLimits.maxComputeWorkgroupSizeY

\* The library calls by which onFrame records, submits and presents a frame.
FrameRecordingCalls ==
    {onGuiCalls[i] : i \in 1..Len(onGuiCalls)}
        \cup {"saveTexture", "renderPassEnd", "encoderFinish", "queueSubmit",
              "swapChainPresent", "wgpuTextureViewRelease", "wgpuQueueSubmit"}

\* The step of onFrame in which getCurrentTextureView returned no view.
AcquireFailedStep ==
    /\ pc = "onFrame.glfwPollEvents"
    /\ calls' = calls \o <<"getCurrentTextureView">>
    /\ gpu'.h["nextTexture"] = Null

\* C11: when onFrame cannot acquire the swap chain's current texture view it
\* logs the failure and returns: the frame issued no call that records a
\* render pass, runs the GUI, submits or presents, and the parameters, the
\* uniforms, the settings and the two flags are as they were when onFrame
\* was entered.
C11_AcquireFailure ==
    [][AcquireFailedStep =>
          /\ pc' = "idle"
          /\ "Cannot acquire next swap chain texture" \in console'
          /\ \A c \in FrameRecordingCalls : ~Occurs(calls', c)
          /\ appVars' = appVars
          /\ m_shouldCompute' = entry'.shouldCompute
          /\ m_shouldReallocateTextures' = entry'.shouldReallocateTextures
          /\ uniformBufferData' = uniformBufferData
          /\ gpu'.alive = gpu.alive]_vars

\* A frame that failed to acquire its view, after the GUI had changed the
\* parameters in an earlier frame.
C11_Witness ==
    /\ pc = "idle"
    /\ op = "onFrame"
    /\ calls[Len(calls)] = "getCurrentTextureView"
    /\ "Cannot acquire next swap chain texture" \in console
    /\ m_parameters # DefaultParameters
    /\ m_shouldCompute


\* std::bit_width of a 16-bit value and of a uint32_t: 0 for 0, otherwise the
\* number n of bits needed, 2^(n-1) <= x < 2^n.
StdBitWidth16(x) == CHOOSE n \in 0..16 : x < Pow2(n) /\ (n > 0 => x >= Pow2(n - 1))
StdBitWidth(m) == IF m.hi # 0 THEN 16 + StdBitWidth16(m.hi) ELSE StdBitWidth16(m.lo)

\* C12 as stated: bit_width(m) is std::bit_width(m), 0 for m = 0 and
\* floor(log2(m)) + 1 otherwise, so getMaxMipLevelCount returns that value
\* for the larger of the texture's width and height.
C12_AsClaimed ==
    mip.pc = "returned" =>
        mip.result = StdBitWidth(Max32(mip.textureSize.width, mip.textureSize.height))

====
